---- MODULE Spec2Model ----
(***************************************************************************)
(* RpcChannel of fastapi_websocket_rpc/rpc_channel.py: the correlation of  *)
(* outgoing calls with incoming responses and the dispatch of incoming     *)
(* requests to the methods object.                                         *)
(*                                                                         *)
(* The channel runs on one asyncio event loop: code between two awaits is  *)
(* one atomic step, and every await that can suspend ends a step.          *)
(***************************************************************************)
EXTENDS Integers, Sequences, FiniteSets, TLC

\* ---- bounds ----
MaxCalls == 2       \* outgoing calls issued over the run
MaxMessages == 3    \* inbound messages handed to on_message over the run
MaxResult == 2      \* distinct result payloads
MaxRemote == 2      \* distinct call_ids the remote side uses for its requests

Calls == 1..MaxCalls
Results == 1..MaxResult
RemoteIds == 1..MaxRemote

\* None, as the value of an Optional call_id
NoneId == 0
\* a call_id that gen_uid of this channel never produced
ForeignId == MaxCalls + 1

\* ---- the methods object (self.methods) ----
\* coroutine methods the application exposes
ExposedMethods == {"add"}
\* plain (non-coroutine) callables of the methods object that __init__ calls
InternalCallables == {"copy", "set_channel"}
\* attributes of the methods object that are not callable
DataAttributes == {"__dict__"}
\* a name the methods object has no attribute for
AbsentNames == {"multiply"}
MethodNames == ExposedMethods \cup InternalCallables \cup DataAttributes \cup AbsentNames

\* what "await method(**arguments)" of an exposed method can end with
MethodOutcomes == {"value", "NoResponse", "raise"}

\* ---- wire messages ----
\* the JSON text of an RpcMessage holding a request
RequestJson(method, call_id) ==
    [kind |-> "request", call_id |-> call_id, method |-> method, result |-> 0]
\* the JSON text of an RpcMessage holding a response
ResponseJson(call_id, result) ==
    [kind |-> "response", call_id |-> call_id, method |-> "", result |-> result]
\* bytes that are not a valid RpcMessage
Garbage == [kind |-> "garbage", call_id |-> NoneId, method |-> "", result |-> 0]

RpcRequest(method, call_id) == [method |-> method, call_id |-> call_id]
RpcResponse(call_id, result) == [call_id |-> call_id, result |-> result]

\* RpcMessage.parse_raw: the Optional fields are sets of at most one element;
\* valid = FALSE stands for pydantic's ValidationError
parse_raw(data) ==
    IF data.kind = "garbage"
    THEN [valid |-> FALSE, request |-> {}, response |-> {}]
    ELSE [valid |-> TRUE,
          request |-> IF data.kind = "request"
                      THEN {RpcRequest(data.method, data.call_id)} ELSE {},
          response |-> IF data.kind = "response"
                       THEN {RpcResponse(data.call_id, data.result)} ELSE {}]

VARIABLES
    requests,       \* self.requests: the call_ids that map to their RpcPromise
    responses,      \* self.responses: call_id -> RpcResponse
    event,          \* RpcPromise._event of the promise of each call
    socket,         \* what self.socket.send was given: data -> number of sends
    pc,             \* where the activity that issued each call stands
    returned,       \* what wait_for_response returned for each call
    nextId,         \* gen_uid: the next fresh call_id
    handlers,       \* the on_request invocations suspended in "await method",
                    \* by the call_id of their request
    raised,         \* exception classes that propagated out of on_message
    invoked,        \* attributes of self.methods that on_request has called
    errors_logged,  \* number of logger.error calls of on_message
    delivered,      \* the responses on_response was called with, per call_id
    received,       \* the requests on_request was called with
    malformed,      \* number of inbound messages that were not valid
    nmsgs,          \* inbound messages handled so far
    send_errors,    \* number of self.socket.send calls that raised
    outcomes,       \* how the awaited methods ended: outcome -> number of times
    on_disconnect_handler,  \* self._on_disconnect is not None
    disconnected,   \* the transport has called on_disconnect
    handler_calls,  \* number of calls of the disconnect handler
    pc2,            \* where a second wait_for_response on each handle stands
    returned2       \* what that second wait_for_response returned

vars == <<requests, responses, event, socket, pc, returned, nextId, handlers,
          raised, invoked, errors_logged, delivered, received, malformed, nmsgs,
          send_errors, outcomes, on_disconnect_handler, disconnected,
          handler_calls, pc2, returned2>>

callerVars == <<pc, returned, nextId>>
tableVars == <<requests, responses, event>>
handlerVars == <<handlers, raised, invoked>>
disconnectVars == <<on_disconnect_handler, disconnected, handler_calls>>
againVars == <<pc2, returned2>>

Idle == [st |-> "idle", method |-> ""]
NoResult == RpcResponse(NoneId, 0)

Init ==
    /\ requests = {}
    /\ responses = << >>
    /\ event = [c \in Calls |-> FALSE]
    /\ socket = << >>
    /\ pc = [c \in Calls |-> "created"]
    /\ returned = [c \in Calls |-> NoResult]
    /\ nextId = 1
    /\ handlers = [i \in RemoteIds |-> Idle]
    /\ raised = {}
    /\ invoked = {}
    /\ errors_logged = 0
    /\ delivered = [c \in Calls |-> {}]
    /\ received = {}
    /\ malformed = 0
    /\ nmsgs = 0
    /\ send_errors = 0
    /\ outcomes = [o \in MethodOutcomes |-> 0]
    /\ on_disconnect_handler = FALSE
    /\ disconnected = FALSE
    /\ handler_calls = 0
    /\ pc2 = [c \in Calls |-> "none"]
    /\ returned2 = [c \in Calls |-> NoResult]

\* d[k] = v, on a dict held as a function
DictSet(d, k, v) == [x \in DOMAIN d \cup {k} |-> IF x = k THEN v ELSE d[x]]
\* del d[k]
DictDel(d, k) == [x \in DOMAIN d \ {k} |-> d[x]]

\* call_ids of the requests this channel has put on the wire
SentIds == {m.call_id : m \in {d \in DOMAIN socket : d.kind = "request"}}

\* what the remote side can send: responses to the requests it has seen or
\* with a call_id of its own making, requests, and invalid data
InboundResponses ==
    {ResponseJson(c, r) : c \in SentIds \cup {NoneId, ForeignId}, r \in Results}
InboundRequests ==
    {RequestJson(m, i) : m \in MethodNames, i \in RemoteIds}
Inbound == {Garbage} \cup InboundResponses \cup InboundRequests

\* ---- the transport ----
\* RpcChannel.send: hand the data to the socket
send(data) ==
    socket' = DictSet(socket, data, IF data \in DOMAIN socket THEN socket[data] + 1 ELSE 1)

\* ---- the calling side ----
\* names of remote methods the application calls
RemoteNames == {"ping"}

\* async_call, registering the promise before the send and leaving it
\* registered when the send raises
async_call_eager(c, name, ok) ==
    /\ c = nextId
    /\ c \in Calls
    /\ pc[c] = "created"
    /\ nextId' = nextId + 1
    /\ requests' = requests \cup {c}
    /\ IF ok
       THEN /\ send(RequestJson(name, c))
            /\ pc' = [pc EXCEPT ![c] = "sending"]
       ELSE /\ UNCHANGED socket
            /\ pc' = [pc EXCEPT ![c] = "send_failed"]
    /\ send_errors' = IF ok THEN send_errors ELSE send_errors + 1
    /\ UNCHANGED <<responses, event, returned, handlerVars, errors_logged, delivered, received, malformed, nmsgs>>
    /\ UNCHANGED <<outcomes, disconnectVars, againVars>>

\* async_call up to its await: build the request with a fresh call_id and
\* send it; ok = FALSE is socket.send raising
async_call(c, name, ok) ==
    /\ c = nextId
    /\ c \in Calls
    /\ pc[c] = "created"
    /\ nextId' = nextId + 1
    /\ IF ok
       THEN /\ send(RequestJson(name, c))
            /\ pc' = [pc EXCEPT ![c] = "sending"]
       ELSE /\ UNCHANGED socket
            /\ pc' = [pc EXCEPT ![c] = "send_failed"]
    /\ send_errors' = IF ok THEN send_errors ELSE send_errors + 1
    /\ UNCHANGED <<tableVars, returned, handlerVars, errors_logged, delivered, received, malformed, nmsgs>>
    /\ UNCHANGED <<outcomes, disconnectVars, againVars>>

\* async_call after "await self.send" has completed: register the promise
async_call_register(c) ==
    /\ pc[c] = "sending"
    /\ requests' = requests \cup {c}
    /\ event' = [event EXCEPT ![c] = FALSE]
    /\ pc' = [pc EXCEPT ![c] = "registered"]
    /\ UNCHANGED <<responses, socket, returned, nextId, handlerVars,
                   errors_logged, delivered, received, malformed, nmsgs>>
    /\ UNCHANGED <<send_errors, outcomes, disconnectVars, againVars>>

\* consume, returning whichever response is stored instead of the one
\* under the promise's call_id
consume_any(c) ==
    IF c \in DOMAIN responses /\ c \in requests
    THEN LET k == CHOOSE k \in DOMAIN responses : \A j \in DOMAIN responses : k <= j IN
         /\ returned' = [returned EXCEPT ![c] = responses[k]]
         /\ requests' = requests \ {c}
         /\ responses' = DictDel(responses, c)
         /\ pc' = [pc EXCEPT ![c] = "returned"]
    ELSE /\ pc' = [pc EXCEPT ![c] = "key_error"]
         /\ UNCHANGED <<returned, requests, responses>>

\* consume, without "del self.requests[promise.call_id]"
consume_keep(c) ==
    IF c \in DOMAIN responses /\ c \in requests
    THEN /\ returned' = [returned EXCEPT ![c] = responses[c]]
         /\ UNCHANGED requests
         /\ responses' = DictDel(responses, c)
         /\ pc' = [pc EXCEPT ![c] = "returned"]
    ELSE /\ pc' = [pc EXCEPT ![c] = "key_error"]
         /\ UNCHANGED <<returned, requests, responses>>

\* consume, without "del self.responses[promise.call_id]"
consume_leak(c) ==
    IF c \in DOMAIN responses /\ c \in requests
    THEN /\ returned' = [returned EXCEPT ![c] = responses[c]]
         /\ requests' = requests \ {c}
         /\ UNCHANGED responses
         /\ pc' = [pc EXCEPT ![c] = "returned"]
    ELSE /\ pc' = [pc EXCEPT ![c] = "key_error"]
         /\ UNCHANGED <<returned, requests, responses>>

\* wait_for_response after "await promise.wait()": read the response and
\* delete both entries; a missing key is a KeyError and changes nothing
consume(c) ==
    IF c \in DOMAIN responses /\ c \in requests
    THEN /\ returned' = [returned EXCEPT ![c] = responses[c]]
         /\ requests' = requests \ {c}
         /\ responses' = DictDel(responses, c)
         /\ pc' = [pc EXCEPT ![c] = "returned"]
    ELSE /\ pc' = [pc EXCEPT ![c] = "key_error"]
         /\ UNCHANGED <<returned, requests, responses>>

\* wait_for_response on the handle of call c: Event.wait returns at once
\* when the event is set, else the caller is suspended
wait_for_response(c) ==
    /\ pc[c] = "registered"
    /\ IF event[c]
       THEN consume(c)
       ELSE /\ pc' = [pc EXCEPT ![c] = "waiting"]
            /\ UNCHANGED <<returned, requests, responses>>
    /\ UNCHANGED <<event, socket, nextId, handlerVars, errors_logged, delivered, received, malformed, nmsgs>>
    /\ UNCHANGED <<send_errors, outcomes, disconnectVars, againVars>>

\* the suspended caller is resumed once the event is set
wait_for_response_resume(c) ==
    /\ pc[c] = "waiting"
    /\ event[c]
    /\ consume(c)
    /\ UNCHANGED <<event, socket, nextId, handlerVars, errors_logged, delivered, received, malformed, nmsgs>>
    /\ UNCHANGED <<send_errors, outcomes, disconnectVars, againVars>>

\* consume_again, reading the response with a default instead of by key
consume_again_default(c) ==
    IF c \in DOMAIN responses /\ c \in requests
    THEN /\ returned2' = [returned2 EXCEPT ![c] = responses[c]]
         /\ requests' = requests \ {c}
         /\ responses' = DictDel(responses, c)
         /\ pc2' = [pc2 EXCEPT ![c] = "returned"]
    ELSE /\ pc2' = [pc2 EXCEPT ![c] = "returned"]
         /\ UNCHANGED <<returned2, requests, responses>>

\* lines 199-202 of wait_for_response, run by a second waiter on the handle
consume_again(c) ==
    IF c \in DOMAIN responses /\ c \in requests
    THEN /\ returned2' = [returned2 EXCEPT ![c] = responses[c]]
         /\ requests' = requests \ {c}
         /\ responses' = DictDel(responses, c)
         /\ pc2' = [pc2 EXCEPT ![c] = "returned"]
    ELSE /\ pc2' = [pc2 EXCEPT ![c] = "key_error"]
         /\ UNCHANGED <<returned2, requests, responses>>

\* wait_for_response called again on the handle of call c, while the first
\* wait_for_response is suspended or after it has ended
wait_for_response_again(c) ==
    /\ pc[c] \in {"waiting", "returned", "key_error"}
    /\ pc2[c] = "none"
    /\ IF event[c]
       THEN consume_again(c)
       ELSE /\ pc2' = [pc2 EXCEPT ![c] = "waiting"]
            /\ UNCHANGED <<returned2, requests, responses>>
    /\ UNCHANGED <<event, socket, callerVars, handlerVars, errors_logged, delivered,
                   received, malformed, nmsgs, send_errors, outcomes, disconnectVars>>

\* the second waiter is resumed once the event is set
wait_for_response_again_resume(c) ==
    /\ pc2[c] = "waiting"
    /\ event[c]
    /\ consume_again(c)
    /\ UNCHANGED <<event, socket, callerVars, handlerVars, errors_logged, delivered,
                   received, malformed, nmsgs, send_errors, outcomes, disconnectVars>>

\* the caller's task is cancelled while suspended in one of its awaits:
\* CancelledError leaves the coroutine, no handler of the channel runs
cancel(c) ==
    /\ pc[c] \in {"sending", "waiting"}
    /\ pc' = [pc EXCEPT ![c] = "cancelled"]
    /\ UNCHANGED <<tableVars, socket, returned, nextId, handlerVars,
                   errors_logged, delivered, received, malformed, nmsgs>>
    /\ UNCHANGED <<send_errors, outcomes, disconnectVars, againVars>>

\* ---- the receiving side ----
\* getattr(self.methods, name), by what it yields
getattr_methods(name) ==
    IF name \in AbsentNames THEN "AttributeError"
    ELSE IF name \in DataAttributes THEN "data"
    ELSE IF name \in InternalCallables THEN "function"
    ELSE "coroutine function"

\* on_response, matching a response to the oldest pending call instead of
\* the call its call_id names
on_response_fifo(response) ==
    /\ delivered' = IF response.call_id \in Calls
                    THEN [delivered EXCEPT ![response.call_id] = @ \cup {response}]
                    ELSE delivered
    /\ IF requests # {}
       THEN LET k == CHOOSE k \in requests : \A j \in requests : k <= j IN
            /\ responses' = DictSet(responses, k, response)
            /\ event' = [event EXCEPT ![k] = TRUE]
       ELSE UNCHANGED <<responses, event>>
    /\ UNCHANGED requests

\* on_response, without the test that the call_id is pending
on_response_nocheck(response) ==
    /\ delivered' = IF response.call_id \in Calls
                    THEN [delivered EXCEPT ![response.call_id] = @ \cup {response}]
                    ELSE delivered
    /\ responses' = DictSet(responses, response.call_id, response)
    /\ event' = [k \in Calls |-> IF k = response.call_id THEN TRUE ELSE event[k]]
    /\ UNCHANGED requests

\* on_response: store the response of a registered call and set its event
on_response(response) ==
    /\ delivered' = IF response.call_id \in Calls
                    THEN [delivered EXCEPT ![response.call_id] = @ \cup {response}]
                    ELSE delivered
    /\ IF response.call_id # NoneId /\ response.call_id \in requests
       THEN /\ responses' = DictSet(responses, response.call_id, response)
            /\ event' = [event EXCEPT ![response.call_id] = TRUE]
       ELSE UNCHANGED <<responses, event>>
    /\ UNCHANGED requests

\* on_request up to "await method(**arguments)" being suspended; the remote
\* side does not reuse the call_id of a request it still waits on
on_request(message) ==
    LET method == getattr_methods(message.method) IN
    /\ received' = received \cup {message}
    /\ UNCHANGED socket
    /\ CASE method = "AttributeError" ->
              \* getattr raises
              /\ raised' = raised \cup {"AttributeError"}
              /\ UNCHANGED <<handlers, invoked>>
         [] method = "data" ->
              \* not callable: nothing is done
              UNCHANGED <<handlers, raised, invoked>>
         [] method = "function" ->
              \* called; its return value cannot be awaited
              /\ invoked' = invoked \cup {message.method}
              /\ raised' = raised \cup {"TypeError"}
              /\ UNCHANGED handlers
         [] method = "coroutine function" ->
              /\ handlers[message.call_id].st = "idle"
              /\ invoked' = invoked \cup {message.method}
              /\ handlers' = [handlers EXCEPT ![message.call_id] =
                     [st |-> "invoking", method |-> message.method]]
              /\ UNCHANGED raised

\* on_request_result, without the test "result is not NoResponse"
on_request_result_always(call_id, outcome, result, ok) ==
    /\ handlers[call_id].st = "invoking"
    /\ handlers' = [handlers EXCEPT ![call_id] = Idle]
    /\ CASE outcome = "raise" ->
              /\ raised' = raised \cup {"MethodError"}
              /\ UNCHANGED socket
         [] outcome \in {"value", "NoResponse"} ->
              IF ok
              THEN /\ send(ResponseJson(call_id, result))
                   /\ UNCHANGED raised
              ELSE /\ raised' = raised \cup {"TransportError"}
                   /\ UNCHANGED socket
    /\ outcomes' = [outcomes EXCEPT ![outcome] = @ + 1]
    /\ send_errors' = IF outcome # "raise" /\ ~ok THEN send_errors + 1 ELSE send_errors
    /\ UNCHANGED <<tableVars, callerVars, invoked, errors_logged, delivered, received, malformed, nmsgs>>
    /\ UNCHANGED <<disconnectVars, againVars>>

\* on_request_result, answering with the call_id of the request received
\* last instead of the one of its own request
on_request_result_latest(call_id, outcome, result, ok) ==
    /\ handlers[call_id].st = "invoking"
    /\ handlers' = [handlers EXCEPT ![call_id] = Idle]
    /\ CASE outcome = "raise" ->
              /\ raised' = raised \cup {"MethodError"}
              /\ UNCHANGED socket
         [] outcome = "NoResponse" ->
              UNCHANGED <<raised, socket>>
         [] outcome = "value" ->
              IF ok
              THEN LET busy == {i \in RemoteIds : handlers[i].st = "invoking"}
                       latest == CHOOSE i \in busy : \A j \in busy : j <= i IN
                   /\ send(ResponseJson(latest, result))
                   /\ UNCHANGED raised
              ELSE /\ raised' = raised \cup {"TransportError"}
                   /\ UNCHANGED socket
    /\ outcomes' = [outcomes EXCEPT ![outcome] = @ + 1]
    /\ send_errors' = IF outcome = "value" /\ ~ok THEN send_errors + 1 ELSE send_errors
    /\ UNCHANGED <<tableVars, callerVars, invoked, errors_logged, delivered, received, malformed, nmsgs>>
    /\ UNCHANGED <<disconnectVars, againVars>>

\* on_request from the completion of the method on: outcome is how the
\* method ended, result its return value, ok = FALSE is socket.send raising
on_request_result(call_id, outcome, result, ok) ==
    /\ handlers[call_id].st = "invoking"
    /\ handlers' = [handlers EXCEPT ![call_id] = Idle]
    /\ CASE outcome = "raise" ->
              /\ raised' = raised \cup {"MethodError"}
              /\ UNCHANGED socket
         [] outcome = "NoResponse" ->
              UNCHANGED <<raised, socket>>
         [] outcome = "value" ->
              IF ok
              THEN /\ send(ResponseJson(call_id, result))
                   /\ UNCHANGED raised
              ELSE /\ raised' = raised \cup {"TransportError"}
                   /\ UNCHANGED socket
    /\ outcomes' = [outcomes EXCEPT ![outcome] = @ + 1]
    /\ send_errors' = IF outcome = "value" /\ ~ok THEN send_errors + 1 ELSE send_errors
    /\ UNCHANGED <<tableVars, callerVars, invoked, errors_logged, delivered, received, malformed, nmsgs>>
    /\ UNCHANGED <<disconnectVars, againVars>>

\* on_message, without the "except ValidationError"
on_message_noexcept(data) ==
    /\ nmsgs < MaxMessages
    /\ nmsgs' = nmsgs + 1
    /\ malformed' = IF data.kind = "garbage" THEN malformed + 1 ELSE malformed
    /\ LET message == parse_raw(data) IN
       IF ~message.valid
       THEN /\ raised' = raised \cup {"ValidationError"}
            /\ UNCHANGED <<tableVars, delivered, handlers, invoked, received,
                           socket, errors_logged>>
       ELSE /\ UNCHANGED errors_logged
            /\ IF message.request # {}
               THEN on_request(CHOOSE q \in message.request : TRUE)
               ELSE UNCHANGED <<handlerVars, received, socket>>
            /\ IF message.response # {}
               THEN on_response(CHOOSE r \in message.response : TRUE)
               ELSE UNCHANGED <<tableVars, delivered>>
    /\ UNCHANGED callerVars
    /\ UNCHANGED <<send_errors, outcomes, disconnectVars, againVars>>

\* on_message: parse, then dispatch to on_request and on_response; only a
\* ValidationError is caught, and logged
on_message(data) ==
    /\ nmsgs < MaxMessages
    /\ nmsgs' = nmsgs + 1
    /\ malformed' = IF data.kind = "garbage" THEN malformed + 1 ELSE malformed
    /\ LET message == parse_raw(data) IN
       IF ~message.valid
       THEN /\ errors_logged' = errors_logged + 1
            /\ UNCHANGED <<tableVars, delivered, handlerVars, received, socket>>
       ELSE /\ UNCHANGED errors_logged
            /\ IF message.request # {}
               THEN on_request(CHOOSE q \in message.request : TRUE)
               ELSE UNCHANGED <<handlerVars, received, socket>>
            /\ IF message.response # {}
               THEN on_response(CHOOSE r \in message.response : TRUE)
               ELSE UNCHANGED <<tableVars, delivered>>
    /\ UNCHANGED callerVars
    /\ UNCHANGED <<send_errors, outcomes, disconnectVars, againVars>>

\* ---- disconnection ----
\* register_disconnect_handler: keep the coroutine to call
register_disconnect_handler ==
    /\ on_disconnect_handler' = TRUE
    /\ UNCHANGED <<tableVars, callerVars, handlerVars, againVars, socket, errors_logged,
                   delivered, received, malformed, nmsgs, send_errors, outcomes,
                   disconnected, handler_calls>>

\* on_disconnect, setting every pending promise as a way to release the callers
on_disconnect_release ==
    /\ ~disconnected
    /\ disconnected' = TRUE
    /\ handler_calls' = IF on_disconnect_handler THEN handler_calls + 1 ELSE handler_calls
    /\ event' = [c \in Calls |-> IF c \in requests THEN TRUE ELSE event[c]]
    /\ UNCHANGED <<requests, responses, callerVars, handlerVars, againVars, socket,
                   errors_logged, delivered, received, malformed, nmsgs, send_errors,
                   outcomes, on_disconnect_handler>>

\* on_disconnect: call the handler, if there is one, with the channel id;
\* the transport reports its disconnection once
on_disconnect ==
    /\ ~disconnected
    /\ disconnected' = TRUE
    /\ handler_calls' = IF on_disconnect_handler THEN handler_calls + 1 ELSE handler_calls
    /\ UNCHANGED <<tableVars, callerVars, handlerVars, againVars, socket, errors_logged,
                   delivered, received, malformed, nmsgs, send_errors, outcomes,
                   on_disconnect_handler>>

\* the calling side: the application issues calls, the remote side answers
CallNext ==
    \/ \E c \in Calls, name \in RemoteNames, ok \in BOOLEAN : async_call(c, name, ok)
    \/ \E c \in Calls : async_call_register(c)
    \/ \E c \in Calls : wait_for_response(c)
    \/ \E c \in Calls : wait_for_response_resume(c)
    \/ \E c \in Calls : cancel(c)
    \/ \E data \in {Garbage} \cup InboundResponses : on_message(data)

\* the serving side: the remote side sends requests
RequestNext ==
    \/ \E data \in {Garbage} \cup InboundRequests : on_message(data)
    \/ \E i \in RemoteIds, outcome \in MethodOutcomes, result \in Results, ok \in BOOLEAN :
           on_request_result(i, outcome, result, ok)

\* the calling side with a transport that disconnects, and a remote side
\* that only answers the requests it got, with one and the same result:
\* nothing arrives from a disconnected transport
DisconnectNext ==
    \/ \E c \in Calls, name \in RemoteNames, ok \in BOOLEAN : async_call(c, name, ok)
    \/ \E c \in Calls : async_call_register(c)
    \/ \E c \in Calls : wait_for_response(c)
    \/ \E c \in Calls : wait_for_response_resume(c)
    \/ \E c \in Calls : cancel(c)
    \/ /\ ~disconnected
       /\ \E data \in {ResponseJson(c, MaxResult) : c \in SentIds} : on_message(data)
    \/ register_disconnect_handler
    \/ on_disconnect

\* the calling side with a second wait_for_response on the handles, and a
\* remote side that only answers the requests it got, with one and the same
\* result
AgainNext ==
    \/ \E c \in Calls, name \in RemoteNames, ok \in BOOLEAN : async_call(c, name, ok)
    \/ \E c \in Calls : async_call_register(c)
    \/ \E c \in Calls : wait_for_response(c)
    \/ \E c \in Calls : wait_for_response_resume(c)
    \/ \E c \in Calls : cancel(c)
    \/ \E data \in {ResponseJson(c, MaxResult) : c \in SentIds} : on_message(data)
    \/ \E c \in Calls : wait_for_response_again(c)
    \/ \E c \in Calls : wait_for_response_again_resume(c)

Next ==
    \/ CallNext
    \/ \E c \in Calls : wait_for_response_again(c)
    \/ \E c \in Calls : wait_for_response_again_resume(c)
    \/ RequestNext
    \/ register_disconnect_handler
    \/ on_disconnect

\* both sides at once
Spec == Init /\ [][Next]_vars

\* The two sides share no state but the socket, which neither reads, so
\* each side is also a specification of its own.
CallSpec == Init /\ [][CallNext]_vars
RequestSpec == Init /\ [][RequestNext]_vars
DisconnectSpec == Init /\ [][DisconnectNext]_vars
AgainSpec == Init /\ [][AgainNext]_vars

\* the event loop runs every caller that is ready to run
CallFairSpec ==
    /\ CallSpec
    /\ \A c \in Calls : WF_vars(async_call_register(c))
    /\ \A c \in Calls : WF_vars(wait_for_response(c))
    /\ \A c \in Calls : WF_vars(wait_for_response_resume(c))

\* ---- the claims ----
\* a call whose request is on the wire and whose caller has neither got its
\* result nor given up
InFlight(c) == pc[c] \in {"sending", "registered", "waiting"}

\* C1: a response that on_response handles for a call_id whose send has
\* started finds the call registered: it is stored, not discarded as unknown.
\* Stated for the calls whose caller has not yet consumed or abandoned them.
CE_C1 ==
    \A c \in Calls :
        (InFlight(c) /\ delivered[c] # {}) => (c \in requests /\ c \in DOMAIN responses)

\* C2: once a response with the call_id of a call has been handed to
\* on_response after the request was sent, the call eventually returns
\* (or its caller cancels it).
CE_C2 ==
    \A c \in Calls :
        (InFlight(c) /\ delivered[c] # {}) ~> (pc[c] \in {"returned", "cancelled"})

\* C3: whatever the order of the responses, what wait_for_response returns
\* for a call is a response that was delivered for that call's call_id, and
\* none that was delivered for another call.
Thm_C3 ==
    \A c \in Calls :
        pc[c] = "returned" =>
            /\ returned[c] \in delivered[c]
            /\ \A d \in Calls \ {c} : returned[c] \notin delivered[d]

\* the later call has returned while the earlier one, issued before it, still
\* waits and has had no response: the responses came out of order
Witness_C3 ==
    /\ MaxCalls >= 2
    /\ pc[2] = "returned"
    /\ pc[1] = "waiting"
    /\ delivered[1] = {}

\* C4: the returned response carries the call_id of the call's request, and a
\* call has returned only if on_response was given a response with that
\* call_id; a call that has not returned has no result.
Thm_C4 ==
    \A c \in Calls :
        /\ pc[c] = "returned" => (returned[c].call_id = c /\ delivered[c] # {})
        /\ pc[c] # "returned" => returned[c] = NoResult

Witness_C4 ==
    \E c \in Calls : pc[c] = "returned" /\ returned[c].call_id = c

\* C5: the step in which a call returns finds its call_id in both maps, returns
\* the stored response and leaves the call_id in neither map; from then on the
\* call_id stays out of both, so the maps hold only calls not yet consumed.
Thm_C5 ==
    [][\A c \in Calls :
        /\ (pc[c] # "returned" /\ pc'[c] = "returned") =>
               /\ c \in requests /\ c \in DOMAIN responses
               /\ returned'[c] = responses[c]
        /\ pc'[c] = "returned" => (c \notin requests' /\ c \notin DOMAIN responses')
        /\ DOMAIN responses' \subseteq requests'
        /\ \A k \in requests' : pc'[k] \in {"registered", "waiting", "cancelled"}
      ]_vars

\* one call is consumed while the other's response is stored and not yet read
Witness_C5 ==
    \E c, d \in Calls : pc[c] = "returned" /\ d \in DOMAIN responses /\ pc[d] = "waiting"

\* C6: after the caller suspended in wait_for_response is cancelled, the
\* call_id is in neither map, also after a response arrives for it.
CE_C6 ==
    \A c \in Calls :
        pc[c] = "cancelled" => (c \notin requests /\ c \notin DOMAIN responses)

\* C7: the step that handles a request naming a method the methods object
\* does not have sends something back to the requester.
CE_C7 ==
    [][\A q \in received' \ received :
           q.method \in AbsentNames =>
               \E m \in DOMAIN socket' :
                   /\ m.kind = "response"
                   /\ m.call_id = q.call_id
                   /\ (m \notin DOMAIN socket \/ socket'[m] > socket[m])
      ]_vars

\* C8: on_request calls nothing but the exposed methods.
CE_C8 == invoked \subseteq ExposedMethods

\* C9: the step that handles a malformed message raises nothing out of
\* on_message, logs the failure and leaves the pending table, the responses,
\* the promises, the socket and the suspended callers and handlers as they
\* were, so what follows is handled as if the message had not come.
Thm_C9 ==
    [][malformed' # malformed =>
           /\ raised' = raised
           /\ errors_logged' = errors_logged + 1
           /\ UNCHANGED <<requests, responses, event, socket, pc, returned,
                          handlers, invoked, delivered, received>>
      ]_vars

\* a malformed message has been dropped and a call has still got its response
Witness_C9 ==
    /\ malformed > 0
    /\ errors_logged = malformed
    /\ \E c \in Calls : pc[c] = "returned"

\* C10: neither an unknown method nor a method that raises makes an
\* exception leave on_message.
CE_C10 == raised \cap {"AttributeError", "MethodError"} = {}

\* C11: a step of on_message raises nothing and changes the stored response
\* or the event of a call_id only when that call_id is pending and the
\* response handled carries it: a response whose call_id is not a key of the
\* pending table adds no entry and touches no pending call, no caller and
\* no result.
Thm_C11 ==
    [][nmsgs' # nmsgs =>
           /\ raised' = raised
           /\ requests' = requests
           /\ pc' = pc /\ returned' = returned
           /\ DOMAIN responses' \subseteq DOMAIN responses \cup requests
           /\ \A k \in Calls :
                  \/ /\ event'[k] = event[k]
                     /\ (k \in DOMAIN responses') = (k \in DOMAIN responses)
                     /\ k \in DOMAIN responses => responses'[k] = responses[k]
                  \/ /\ k \in requests
                     /\ k \in DOMAIN responses'
                     /\ responses'[k].call_id = k
                     /\ responses'[k] \in delivered'[k]
      ]_vars

\* a response has been handled for a call that was not registered, while
\* another call is pending with no response
Witness_C11 ==
    \E c, d \in Calls :
        /\ pc[c] = "sending" /\ delivered[c] # {}
        /\ d \in requests /\ d \notin DOMAIN responses /\ ~event[d]

\* C12: a call issued after the transport has reported its disconnection is
\* rejected at once: its request is not sent and nothing is registered.
CE_C12 ==
    [][\A c \in Calls :
           (disconnected /\ pc[c] = "created" /\ pc'[c] # "created") =>
               (pc'[c] # "sending" /\ requests' = requests)
      ]_vars

\* C19: the step of on_disconnect leaves the pending table, the responses,
\* every promise, every caller and the socket as they were, and with no
\* handler registered it calls nothing; a caller that waits on an unset
\* promise leaves its wait only by being cancelled.
Thm_C19 ==
    [][/\ disconnected' # disconnected =>
              /\ UNCHANGED <<requests, responses, event, pc, returned, pc2, returned2,
                             socket, raised, on_disconnect_handler>>
              /\ handler_calls' = IF on_disconnect_handler THEN handler_calls + 1
                                  ELSE handler_calls
       /\ \A c \in Calls :
              (disconnected /\ pc[c] = "waiting" /\ ~event[c]) =>
                  pc'[c] \in {"waiting", "cancelled"}
      ]_vars

\* the transport has disconnected with no handler registered while a caller
\* waits for a response that has not come
Witness_C19 ==
    /\ disconnected
    /\ ~on_disconnect_handler
    /\ handler_calls = 0
    /\ \E c \in Calls : pc[c] = "waiting" /\ ~event[c] /\ c \in requests

\* a wait_for_response that has ended, with the response or with the error
Ended(p) == p \in {"returned", "key_error"}

\* C13: a wait_for_response that runs its lines 199-202 on a handle whose
\* entries are deleted ends with the KeyError of the missing call_id: it
\* returns nothing, is not suspended and leaves both maps as they were; of two
\* waiters on one handle at most one gets the response, and once both have
\* ended exactly one has it.
Thm_C13 ==
    [][\A c \in Calls :
        /\ (pc2'[c] # pc2[c] /\ c \notin requests) =>
               /\ pc2'[c] = "key_error"
               /\ returned2'[c] = NoResult
               /\ requests' = requests /\ responses' = responses
        /\ (pc[c] \in {"registered", "waiting"} /\ Ended(pc'[c]) /\ c \notin requests) =>
               /\ pc'[c] = "key_error"
               /\ returned'[c] = NoResult
               /\ requests' = requests /\ responses' = responses
        /\ ~(pc'[c] = "returned" /\ pc2'[c] = "returned")
        /\ (Ended(pc'[c]) /\ Ended(pc2'[c])) =>
               (pc'[c] = "returned" \/ pc2'[c] = "returned")
        /\ pc2'[c] = "returned" => returned2'[c] \in delivered'[c]
      ]_vars

\* the first waiter has the response and the second, on the same handle, the error
Witness_C13 ==
    \E c \in Calls :
        /\ pc[c] = "returned" /\ pc2[c] = "key_error"
        /\ c \notin requests /\ c \notin DOMAIN responses


\* the number of times data has been handed to the socket and accepted
Sent(sock, data) == IF data \in DOMAIN sock THEN sock[data] ELSE 0

\* C14: the step in which the awaited method returns NoResponse hands nothing
\* to the socket and leaves the pending table and the responses as they were.
Thm_C14 ==
    [][outcomes'["NoResponse"] # outcomes["NoResponse"] =>
           /\ socket' = socket
           /\ send_errors' = send_errors
           /\ requests' = requests /\ responses' = responses /\ event' = event
           /\ raised' = raised
      ]_vars

\* a method has returned NoResponse and the socket has been given nothing
Witness_C14 ==
    /\ outcomes["NoResponse"] > 0
    /\ DOMAIN socket = {}
    /\ send_errors = 0

Thm_C15 ==
    [][/\ DOMAIN responses' \subseteq requests'
       /\ \A c \in Calls :
              /\ (c \notin DOMAIN responses /\ c \in DOMAIN responses') =>
                     (c \in requests /\ c \in requests')
              /\ (c \in DOMAIN responses /\ c \notin DOMAIN responses') =>
                     (c \in requests /\ c \notin requests')
              /\ (c \in requests /\ c \notin requests') =>
                     (c \in DOMAIN responses /\ c \notin DOMAIN responses')
      ]_vars

\* one call has its response stored and unread, another has been consumed
Witness_C15 ==
    \E c, d \in Calls :
        /\ c \in requests /\ c \in DOMAIN responses /\ event[c]
        /\ pc[d] = "returned" /\ d \notin requests /\ d \notin DOMAIN responses

\* C16, as stated: every call_id in the pending table belongs to a request
\* that has not yet received a response.
CE_C16 ==
    \A c \in requests : c \notin DOMAIN responses

\* the requests with call_id c that this channel has handed to the socket
RequestsSent(c) ==
    {d \in DOMAIN socket : d.kind = "request" /\ d.call_id = c}

\* C16, amended: every call_id in the pending table is the call_id of exactly
\* one request, which this channel has sent once, and no wait_for_response
\* has returned a response for it yet.
Thm_C16 ==
    \A c \in requests :
        /\ c \in Calls
        /\ Cardinality(RequestsSent(c)) = 1
        /\ \A d \in RequestsSent(c) : socket[d] = 1
        /\ pc[c] # "returned" /\ returned[c] = NoResult
        /\ pc2[c] # "returned" /\ returned2[c] = NoResult

\* a pending call whose response has been received and stored, not yet read
Witness_C16 ==
    \E c \in requests : c \in DOMAIN responses /\ pc[c] = "waiting"

\* C18: a response stored for a pending call is not replaced by a later
\* response with the same call_id.
CE_C18 ==
    [][\A c \in Calls :
           (c \in DOMAIN responses /\ c \in DOMAIN responses') =>
               responses'[c] = responses[c]
      ]_vars

\* C20: the step in which the send of async_call raises adds nothing to the
\* pending table, the responses or the socket and sets no promise, and a call
\* whose send has raised never gets an entry in either map.
Thm_C20 ==
    [][\A c \in Calls :
        /\ (pc[c] = "created" /\ pc'[c] = "send_failed") =>
               /\ send_errors' = send_errors + 1
               /\ requests' = requests /\ responses' = responses /\ event' = event
               /\ socket' = socket
        /\ pc'[c] = "send_failed" =>
               (c \notin requests' /\ c \notin DOMAIN responses' /\ returned'[c] = NoResult)
      ]_vars

\* the send of one call has raised while another call is pending
Witness_C20 ==
    \E c, d \in Calls :
        /\ pc[c] = "send_failed" /\ c \notin requests
        /\ d \in requests
        /\ send_errors > 0

====
